---- MODULE Spec2Model ----
(***************************************************************************)
(* Skim reader: sentence-aware chunker, sliding window positioner and the  *)
(* reading session of ReaderPage.  Text is modelled character by character *)
(* (a string is a sequence of one-character strings), so that sentence     *)
(* matching, joining with ' ' and re-tokenising are computed as the code   *)
(* computes them.                                                          *)
(***************************************************************************)
EXTENDS Integers, Sequences, FiniteSets, TLC

(***************************************************************************)
(* Bounds of the model.                                                    *)
(***************************************************************************)
MaxLen == 8          \* longest enumerated text, in characters
MaxCfg == 3          \* largest enumerated ChunkConfig.maxWords
MaxChapLen == 6      \* longest enumerated chapter text, in characters
LongWords == 9       \* words of the long chapters

Chars == {"a", ".", " "}
Space == {" "}
Terminal == {".", "!", "?"}

Min(a, b) == IF a < b THEN a ELSE b
Max(a, b) == IF a > b THEN a ELSE b

RECURSIVE SumSeq(_)
SumSeq(s) ==
  IF Len(s) = 0 THEN 0
  ELSE IF Len(s) = 1 THEN s[1]
  ELSE LET h == Len(s) \div 2
       IN SumSeq(SubSeq(s, 1, h)) + SumSeq(SubSeq(s, h + 1, Len(s)))

(***************************************************************************)
(* JavaScript numbers.  A Number is an IEEE-754 double: every division and *)
(* multiplication is rounded to 53 significant bits, to nearest, ties to   *)
(* even.  Integers wider than the checker's are kept as sequences of       *)
(* 13-bit limbs, least significant first; a double is m * 2^(-e) with m    *)
(* such an integer of exactly 53 bits, or 0 * 2^0.  Only non-negative      *)
(* numbers occur: word counts, percentages and durations.                  *)
(***************************************************************************)
LimbBase == 2^13

\* the wide integer of a small one (n < 2^26)
big(n) == <<n % LimbBase, n \div LimbBase, 0, 0, 0, 0, 0, 0, 0, 0>>

RECURSIVE mulLimbs(_, _, _, _)
mulLimbs(x, t, i, carry) ==
  IF i > Len(x) THEN <<>>
  ELSE LET v == x[i] * t + carry
       IN <<v % LimbBase>> \o mulLimbs(x, t, i + 1, v \div LimbBase)

\* x * t for a small t (t <= 2^13)
mulSmall(x, t) == mulLimbs(x, t, 1, 0)

RECURSIVE divLimbs(_, _, _, _)
divLimbs(x, d, i, r) ==
  IF i = 0 THEN [q |-> <<>>, r |-> r]
  ELSE LET v == r * LimbBase + x[i]
           rest == divLimbs(x, d, i - 1, v % d)
       IN [q |-> Append(rest.q, v \div d), r |-> rest.r]

\* quotient and remainder of x by a small d (0 < d <= 2^13)
divSmall(x, d) == divLimbs(x, d, Len(x), 0)

RECURSIVE shiftLeft(_, _)
shiftLeft(x, s) ==
  IF s = 0 THEN x ELSE shiftLeft(mulSmall(x, 2^Min(s, 12)), s - Min(s, 12))

RECURSIVE shiftRight(_, _)
shiftRight(x, s) ==
  IF s = 0 THEN x ELSE shiftRight(divSmall(x, 2^Min(s, 12)).q, s - Min(s, 12))

RECURSIVE addLimbs(_, _, _, _)
addLimbs(x, y, i, carry) ==
  IF i > Len(x) THEN <<>>
  ELSE LET v == x[i] + y[i] + carry
       IN <<v % LimbBase>> \o addLimbs(x, y, i + 1, v \div LimbBase)

\* x + y
addBig(x, y) == addLimbs(x, y, 1, 0)

\* x + 1
incr(x) == addBig(x, big(1))

RECURSIVE subLimbs(_, _, _, _)
subLimbs(x, y, i, borrow) ==
  IF i > Len(x) THEN <<>>
  ELSE LET v == x[i] - y[i] - borrow
       IN <<(v + LimbBase) % LimbBase>> \o subLimbs(x, y, i + 1, IF v < 0 THEN 1 ELSE 0)

\* x - y, for x >= y
subBig(x, y) == subLimbs(x, y, 1, 0)

\* x * LimbBase^k
shiftLimbs(x, k) == [j \in 1..Len(x) |-> IF j <= k THEN 0 ELSE x[j - k]]

RECURSIVE mulBigFrom(_, _, _)
mulBigFrom(x, y, i) ==
  IF i > Len(y) THEN big(0)
  ELSE IF y[i] = 0 THEN mulBigFrom(x, y, i + 1)
  ELSE addBig(shiftLimbs(mulSmall(x, y[i]), i - 1), mulBigFrom(x, y, i + 1))

\* x * y
mulBig(x, y) == mulBigFrom(x, y, 1)

\* x < y
less(x, y) ==
  LET differ == {i \in 1..Len(x) : x[i] # y[i]}
  IN differ # {} /\ LET top == CHOOSE i \in differ : \A j \in differ : j <= i
                    IN x[top] < y[top]

\* the small integer a wide one holds
toInt(x) == x[1] + x[2] * LimbBase

\* number of significant bits of x
bitLength(x) ==
  LET used == {i \in 1..Len(x) : x[i] # 0}
  IN IF used = {} THEN 0
     ELSE LET top == CHOOSE i \in used : \A j \in used : j <= i
              bits == CHOOSE j \in 1..13 : x[top] < 2^j /\ x[top] >= 2^(j - 1)
          IN 13 * (top - 1) + bits

\* the double nearest to x * 2^(-e), x exact unless inexact says that a
\* positive amount smaller than one unit of x was already dropped
roundTo53(x, e, inexact) ==
  LET s == bitLength(x) - 53
  IN IF bitLength(x) = 0 THEN [m |-> x, e |-> 0]
     ELSE IF s <= 0 THEN [m |-> shiftLeft(x, 0 - s), e |-> e - s]
     ELSE LET y == shiftRight(x, s - 1)
              guard == y[1] % 2
              q == shiftRight(y, 1)
              sticky == inexact \/ shiftLeft(y, s - 1) # x
              up == guard = 1 /\ (sticky \/ q[1] % 2 = 1)
              r == IF up THEN incr(q) ELSE q
          IN IF bitLength(r) > 53 THEN [m |-> shiftRight(r, 1), e |-> e - s - 1]
             ELSE [m |-> r, e |-> e - s]

\* the double of a small integer
fromInt(n) == roundTo53(big(n), 0, FALSE)

\* n / d in doubles, for small integers n >= 0 and d > 0
fdivInt(n, d) ==
  LET dr == divSmall(shiftLeft(big(n), 64), d)
  IN roundTo53(dr.q, 64, dr.r # 0)

\* x * t in doubles, for a double x and a small integer t >= 0
fmulInt(x, t) == roundTo53(mulSmall(x.m, t), x.e, FALSE)

\* x * y in doubles
fmul(x, y) == roundTo53(mulBig(x.m, y.m), x.e + y.e, FALSE)

\* x + y in doubles
fadd(x, y) ==
  LET e == Max(x.e, y.e)
  IN roundTo53(addBig(shiftLeft(x.m, e - x.e), shiftLeft(y.m, e - y.e)), e, FALSE)

\* x - y in doubles, for x >= y
fsub(x, y) ==
  LET e == Max(x.e, y.e)
  IN roundTo53(subBig(shiftLeft(x.m, e - x.e), shiftLeft(y.m, e - y.e)), e, FALSE)

\* x < y for doubles
fless(x, y) ==
  LET e == Max(x.e, y.e)
  IN less(shiftLeft(x.m, e - x.e), shiftLeft(y.m, e - y.e))

\* Math.max
fmax(x, y) == IF fless(x, y) THEN y ELSE x

\* Math.floor of a non-negative double below 2^26
floorD(x) == toInt(shiftRight(x.m, x.e))

\* the double x against the fraction a / b of small integers (a >= 0, b > 0)
dLess(x, a, b) == less(mulSmall(x.m, b), shiftLeft(big(a), x.e))
dGreater(x, a, b) == less(shiftLeft(big(a), x.e), mulSmall(x.m, b))
dEqual(x, a, b) == mulSmall(x.m, b) = shiftLeft(big(a), x.e)

(***************************************************************************)
(* ReadingTimeEstimator: an estimator is the record of its fields n and    *)
(* ema; alpha never changes.  Times are Numbers, in seconds.               *)
(***************************************************************************)
MIN_OBSERVATIONS == 5
MIN_TIME_SECONDS == 5
BUFFER_SECONDS == 2

\* the literal 0.3
alpha == fdivInt(3, 10)

\* new ReadingTimeEstimator()
NewEstimator == [n |-> 0, ema |-> fromInt(0)]

\* an estimator that weighs the old average by alpha
addObservationSwapped(est, timeSeconds) ==
  LET clampedTime == fmax(timeSeconds, fromInt(MIN_TIME_SECONDS))
  IN [n |-> est.n + 1,
      ema |-> IF est.n = 0 THEN clampedTime
              ELSE fadd(fmul(fsub(fromInt(1), alpha), clampedTime), fmul(alpha, est.ema))]

\* an estimator that keeps its first observation as the average
addObservationFirstOnly(est, timeSeconds) ==
  LET clampedTime == fmax(timeSeconds, fromInt(MIN_TIME_SECONDS))
  IN [n |-> est.n + 1, ema |-> IF est.n = 0 THEN clampedTime ELSE est.ema]

\* the estimator of the revision that does not clamp its input
addObservationUnclamped(est, timeSeconds) ==
  [n |-> est.n + 1,
   ema |-> IF est.n = 0 THEN timeSeconds
           ELSE fadd(fmul(alpha, timeSeconds), fmul(fsub(fromInt(1), alpha), est.ema))]

addObservation(est, timeSeconds) ==
  LET clampedTime == fmax(timeSeconds, fromInt(MIN_TIME_SECONDS))
  IN [n |-> est.n + 1,
      ema |-> IF est.n = 0 THEN clampedTime
              ELSE fadd(fmul(alpha, clampedTime), fmul(fsub(fromInt(1), alpha), est.ema))]

\* a prediction without the buffer
predictWithoutBuffer(est) ==
  IF est.n = 0 THEN fromInt(MIN_TIME_SECONDS + BUFFER_SECONDS)
  ELSE fmax(fromInt(MIN_TIME_SECONDS), est.ema)

predict(est) ==
  IF est.n = 0 THEN fromInt(MIN_TIME_SECONDS + BUFFER_SECONDS)
  ELSE fmax(fromInt(MIN_TIME_SECONDS), fadd(est.ema, fromInt(BUFFER_SECONDS)))

shouldEnableAutoplay(est) == est.n >= MIN_OBSERVATIONS

getObservationCount(est) == est.n

getCurrentEMA(est) == est.ema

\* a reset that forgets the count only
resetCount(est) == [n |-> 0, ema |-> est.ema]

reset(est) == [n |-> 0, ema |-> fromInt(0)]

(***************************************************************************)
(* String primitives of the JavaScript runtime the code relies on.         *)
(***************************************************************************)
\* index of the first character at or after i that is not in S (Len+1 if none)
RunEnd(S, s, i) ==
  LET stops == {j \in i..Len(s) : s[j] \notin S}
  IN IF stops = {} THEN Len(s) + 1 ELSE CHOOSE j \in stops : \A k \in stops : j <= k

\* index of the first character at or after i that is in S (Len+1 if none)
RunEndNot(S, s, i) ==
  LET stops == {j \in i..Len(s) : s[j] \in S}
  IN IF stops = {} THEN Len(s) + 1 ELSE CHOOSE j \in stops : \A k \in stops : j <= k

\* index of the last character at or before i that is not in S (0 if none)
LastNotIn(S, s, i) ==
  LET stops == {j \in 1..i : s[j] \notin S}
  IN IF stops = {} THEN 0 ELSE CHOOSE j \in stops : \A k \in stops : j >= k

\* /^\s+$/.test(t)
IsBlank(t) == t # <<>> /\ \A i \in 1..Len(t) : t[i] \in Space

\* String.prototype.trim
trim(s) ==
  LET b == RunEnd(Space, s, 1)
  IN IF b > Len(s) THEN <<>> ELSE SubSeq(s, b, LastNotIn(Space, s, Len(s)))

\* Array.prototype.join: the parts in order with sep between neighbours
RECURSIVE join(_, _)
join(parts, sep) ==
  IF parts = <<>> THEN <<>>
  ELSE IF Len(parts) = 1 THEN parts[1]
  ELSE LET h == Len(parts) \div 2
       IN join(SubSeq(parts, 1, h), sep) \o sep \o join(SubSeq(parts, h + 1, Len(parts)), sep)

\* text.split(/\s+/): the pieces between maximal whitespace runs, in order;
\* a text that begins or ends with whitespace has an empty piece at that end,
\* and the empty text is one empty piece
splitWs(s) ==
  LET starts == SelectSeq([j \in 1..Len(s) |-> j],
                          LAMBDA j : s[j] \notin Space /\ (j = 1 \/ s[j - 1] \in Space))
      pieces == [k \in 1..Len(starts) |->
                   SubSeq(s, starts[k], RunEndNot(Space, s, starts[k]) - 1)]
      lead == IF s # <<>> /\ s[1] \in Space THEN << <<>> >> ELSE <<>>
      trail == IF s # <<>> /\ s[Len(s)] \in Space THEN << <<>> >> ELSE <<>>
  IN IF s = <<>> THEN << <<>> >> ELSE lead \o pieces \o trail

SelectNonEmpty(parts) == SelectSeq(parts, LAMBDA p : Len(p) > 0)

(***************************************************************************)
(* ChunkerService, the revision taking a ChunkConfig (called by            *)
(* computeWindow and ReaderPage).                                          *)
(***************************************************************************)
\* text.split(/\s+/).map(w => w.trim()).filter(w => w.length > 0)
tokenizeWords(text) ==
  LET pieces == splitWs(text)
  IN SelectNonEmpty([i \in 1..Len(pieces) |-> trim(pieces[i])])

countWords(text) == Len(tokenizeWords(text))

\* text.match(/[^.!?]+[.!?]+(?:\s+|$)/g) scanning from index pos: at each start
\* the greedy [^.!?]+ takes the whole run of non-terminal characters, [.!?]+
\* the whole run of terminal ones, and the match succeeds only if whitespace
\* (taken greedily) or the end of the text follows; otherwise the scan
\* resumes one character later and the characters passed over are in no match
RECURSIVE matchSentences(_, _)
matchSentences(text, pos) ==
  IF pos > Len(text) THEN <<>>
  ELSE IF text[pos] \in Terminal THEN matchSentences(text, pos + 1)
  ELSE LET q == RunEndNot(Terminal, text, pos)
           r == RunEnd(Terminal, text, q)
       IN IF q > Len(text) THEN matchSentences(text, pos + 1)
          ELSE IF r > Len(text) THEN <<SubSeq(text, pos, Len(text))>>
          ELSE IF text[r] \in Space
               THEN <<SubSeq(text, pos, RunEnd(Space, text, r) - 1)>>
                    \o matchSentences(text, RunEnd(Space, text, r))
          ELSE matchSentences(text, pos + 1)

splitIntoSentences(text) ==
  LET matches == matchSentences(text, 1)
  IN IF matches = <<>> THEN <<trim(text)>>
     ELSE SelectNonEmpty([i \in 1..Len(matches) |-> trim(matches[i])])

\* for (let i = 0; i < words.length; i += maxWords): the loop ends only if
\* the step is positive or there is no word
splitLongSentenceTerminates(sentence, maxWords) ==
  maxWords >= 1 \/ countWords(sentence) = 0

\* the chunks the loop pushes, one per iteration: iteration k starts at
\* i = first + (k - 1) * maxWords and takes words.slice(i, i + maxWords)
splitLoop(words, first, maxWords) ==
  [k \in 1..((Len(words) - first + maxWords - 1) \div maxWords) |->
     LET i == first + (k - 1) * maxWords
     IN join(SubSeq(words, i + 1, Min(i + maxWords, Len(words))), <<" ">>)]

\* mutant: the slice takes one word too many (words.slice(i, i + maxWords + 1)
\* with a matching step)
splitLongSentenceWide(sentence, maxWords) ==
  splitLoop(tokenizeWords(sentence), 0, maxWords + 1)

splitLongSentence(sentence, maxWords) == splitLoop(tokenizeWords(sentence), 0, maxWords)

RECURSIVE groupLoop(_, _, _, _, _, _)
groupLoop(sentences, i, maxWords, slides, currentSlide, currentWordCount) ==
  IF i > Len(sentences)
  THEN IF Len(currentSlide) > 0 THEN Append(slides, join(currentSlide, <<" ">>)) ELSE slides
  ELSE
    LET sentence == sentences[i]
        sentenceWords == countWords(sentence)
        saved == IF Len(currentSlide) > 0
                 THEN Append(slides, join(currentSlide, <<" ">>))
                 ELSE slides
    IN IF currentWordCount + sentenceWords > maxWords
       THEN IF sentenceWords > maxWords
            THEN LET chunks == splitLongSentence(sentence, maxWords)
                     lastChunk == chunks[Len(chunks)]
                 IN groupLoop(sentences, i + 1, maxWords,
                              saved \o SubSeq(chunks, 1, Len(chunks) - 1),
                              <<lastChunk>>, countWords(lastChunk))
            ELSE groupLoop(sentences, i + 1, maxWords, saved, <<sentence>>, sentenceWords)
       ELSE groupLoop(sentences, i + 1, maxWords, slides,
                      Append(currentSlide, sentence), currentWordCount + sentenceWords)

groupSentencesIntoSlides(sentences, maxWords) ==
  groupLoop(sentences, 1, maxWords, <<>>, <<>>, 0)

\* mutant: only the empty text is 'no content'; whitespace goes on to the
\* sentence splitter
chunkTextUntrimmed(text, maxWords) ==
  IF Len(text) = 0 THEN <<>>
  ELSE groupSentencesIntoSlides(splitIntoSentences(text), maxWords)

chunkText(text, maxWords) ==
  IF Len(text) = 0 \/ Len(trim(text)) = 0 THEN <<>>
  ELSE groupSentencesIntoSlides(splitIntoSentences(text), maxWords)

(***************************************************************************)
(* ChunkerService, the revision of src/chunker/ChunkerService.ts: no       *)
(* ChunkConfig, a fixed cap and a target of 2 sentences per slide.         *)
(***************************************************************************)
MAX_WORDS_PER_SLIDE == 60
TARGET_SENTENCES_PER_SLIDE == 2

RECURSIVE groupLoopFixed(_, _, _, _, _)
groupLoopFixed(sentences, i, slides, currentSlide, currentWordCount) ==
  IF i > Len(sentences)
  THEN IF Len(currentSlide) > 0 THEN Append(slides, join(currentSlide, <<" ">>)) ELSE slides
  ELSE
    LET sentence == sentences[i]
        sentenceWords == countWords(sentence)
        saved == IF Len(currentSlide) > 0
                 THEN Append(slides, join(currentSlide, <<" ">>))
                 ELSE slides
    IN IF sentenceWords > MAX_WORDS_PER_SLIDE
       THEN groupLoopFixed(sentences, i + 1,
                           saved \o splitLongSentence(sentence, MAX_WORDS_PER_SLIDE),
                           <<>>, IF Len(currentSlide) > 0 THEN 0 ELSE currentWordCount)
       ELSE IF currentWordCount + sentenceWords > MAX_WORDS_PER_SLIDE
       THEN groupLoopFixed(sentences, i + 1, saved, <<sentence>>, sentenceWords)
       ELSE IF Len(currentSlide) + 1 >= TARGET_SENTENCES_PER_SLIDE
       THEN groupLoopFixed(sentences, i + 1,
                           Append(slides, join(Append(currentSlide, sentence), <<" ">>)),
                           <<>>, 0)
       ELSE groupLoopFixed(sentences, i + 1, slides,
                           Append(currentSlide, sentence), currentWordCount + sentenceWords)

groupSentencesIntoSlidesFixed(sentences) == groupLoopFixed(sentences, 1, <<>>, <<>>, 0)

chunkTextFixed(text) ==
  IF Len(text) = 0 \/ Len(trim(text)) = 0 THEN <<>>
  ELSE groupSentencesIntoSlidesFixed(splitIntoSentences(text))

(***************************************************************************)
(* SlidingWindowHelper (src/parser/types.ts).                              *)
(***************************************************************************)
DEFAULT_WINDOW_CONFIG == [prevCount |-> 5, nextCount |-> 5]

\* text.split(/(\s+)/).filter(token => token.length > 0): the maximal runs of
\* whitespace and of non-whitespace characters, in order
RECURSIVE splitIntoWordsFrom(_, _)
splitIntoWordsFrom(s, i) ==
  IF i > Len(s) THEN <<>>
  ELSE LET e == IF s[i] \in Space THEN RunEnd(Space, s, i) ELSE RunEndNot(Space, s, i)
       IN <<SubSeq(s, i, e - 1)>> \o splitIntoWordsFrom(s, e)

splitIntoWords(s) == splitIntoWordsFrom(s, 1)

countWordsInTokens(tokens) == Len(SelectSeq(tokens, LAMBDA t : ~IsBlank(t)))

\* the loop converting the word offset to a token index (0-based i):
\* <<targetTokenIndex, wordCount>> when it ends
RECURSIVE targetLoop(_, _, _, _)
targetLoop(allTokens, i, wordCount, targetWordOffset) ==
  IF i >= Len(allTokens) THEN <<0, wordCount>>
  ELSE IF ~IsBlank(allTokens[i + 1])
       THEN IF wordCount >= targetWordOffset THEN <<i, wordCount>>
            ELSE targetLoop(allTokens, i + 1, wordCount + 1, targetWordOffset)
       ELSE targetLoop(allTokens, i + 1, wordCount, targetWordOffset)

\* mutant: the loop tests wordCount > targetWordOffset, cutting the text one
\* word after the target
targetTokenIndexOfLate(allTokens, targetWordOffset) ==
  LET r == targetLoop(allTokens, 0, 0, targetWordOffset + 1)
  IN IF r[2] < targetWordOffset THEN Len(allTokens) ELSE r[1]

targetTokenIndexOf(allTokens, targetWordOffset) ==
  LET r == targetLoop(allTokens, 0, 0, targetWordOffset)
  IN IF r[2] < targetWordOffset THEN Len(allTokens) ELSE r[1]

\* arr.slice(-n): the last n elements; slice(-0) is slice(0), the whole array
sliceLast(arr, n) ==
  IF n = 0 \/ n >= Len(arr) THEN arr ELSE SubSeq(arr, Len(arr) - n + 1, Len(arr))

\* arr.slice(0, n)
sliceFirst(arr, n) == SubSeq(arr, 1, Min(n, Len(arr)))

computeWindow(chapter, targetWordOffset, maxWords, windowConfig) ==
  LET allTokens == splitIntoWords(chapter.text)
      targetTokenIndex == targetTokenIndexOf(allTokens, targetWordOffset)
      tokensBefore == SubSeq(allTokens, 1, targetTokenIndex)
      tokensAfter == SubSeq(allTokens, targetTokenIndex + 1, Len(allTokens))
      textBefore == join(tokensBefore, <<>>)
      slidesBefore == IF Len(textBefore) > 0 THEN chunkText(textBefore, maxWords) ELSE <<>>
      prev == sliceLast(slidesBefore, windowConfig.prevCount)
      textAfter == join(tokensAfter, <<>>)
      slidesAfter == IF Len(textAfter) > 0 THEN chunkText(textAfter, maxWords) ELSE <<>>
      currentAndNext == sliceFirst(slidesAfter, windowConfig.nextCount + 1)
      slides == prev \o currentAndNext
      slideWordCounts == [i \in 1..Len(slides) |-> countWordsInTokens(splitIntoWords(slides[i]))]
      wordsBeforeWindow ==
        countWordsInTokens(tokensBefore)
          - SumSeq([i \in 1..Len(prev) |-> countWordsInTokens(splitIntoWords(prev[i]))])
      startWordOffset == Max(0, wordsBeforeWindow)
  IN [slides |-> slides,
      currentIndex |-> Len(prev),
      startWordOffset |-> startWordOffset,
      chapterIndex |-> chapter.chapterIndex,
      endWordOffset |-> startWordOffset + SumSeq(slideWordCounts),
      slideWordCounts |-> slideWordCounts]

isWithinWindow(window, wordOffset) ==
  wordOffset >= window.startWordOffset /\ wordOffset < window.endWordOffset

\* the cumulative-sum scan (0-based i), currentOffset the offset where slide i starts
RECURSIVE findLoop(_, _, _, _)
findLoop(window, i, currentOffset, wordOffset) ==
  IF i >= Len(window.slides) THEN Len(window.slides) - 1
  ELSE IF wordOffset >= currentOffset /\ wordOffset < currentOffset + window.slideWordCounts[i + 1]
       THEN i
       ELSE findLoop(window, i + 1, currentOffset + window.slideWordCounts[i + 1], wordOffset)

findSlideIndexAtOffset(window, wordOffset) ==
  IF wordOffset < window.startWordOffset THEN 0
  ELSE findLoop(window, 0, window.startWordOffset, wordOffset)

getOffsetAtSlideIndex(window, slideIndex) ==
  IF slideIndex < 0 THEN window.startWordOffset
  ELSE window.startWordOffset
         + SumSeq(SubSeq(window.slideWordCounts, 1, Min(slideIndex, Len(window.slides))))


(***************************************************************************)
(* Inputs.                                                                 *)
(***************************************************************************)
\* every text of at most MaxLen characters
Texts == UNION {[1..n -> Chars] : n \in 0..MaxLen}

\* a sentence of n one-letter words ending in a full stop, as the fixtures of
\* ChunkerService.test.ts ('A1 A2 ... A20.')
SentenceOf(n) == [i \in 1..(2 * n) |-> IF i = 2 * n THEN "." ELSE IF i % 2 = 1 THEN "a" ELSE " "]

Case2Text == SentenceOf(20) \o <<" ">> \o SentenceOf(50)
Case3Text == SentenceOf(80)
Case5Text == SentenceOf(20) \o <<" ">> \o SentenceOf(50) \o <<" ">> \o SentenceOf(30)
FixtureTexts == {Case2Text, Case3Text, Case5Text}

Configs == 1..MaxCfg

\* every chapter text of at most MaxChapLen characters
ChapterTexts == UNION {[1..n -> Chars] : n \in 0..MaxChapLen}

\* n one-word sentences; n words with no punctuation at all
ShortSentences(n) == [i \in 1..(3 * n - 1) |-> IF i % 3 = 1 THEN "a" ELSE IF i % 3 = 2 THEN "." ELSE " "]
RunOn(n) == [i \in 1..(2 * n - 1) |-> IF i % 2 = 1 THEN "a" ELSE " "]

\* chapters long enough for the window to leave slides out on both sides
LongChapterTexts == {ShortSentences(LongWords), RunOn(LongWords)}

WindowConfigs == {DEFAULT_WINDOW_CONFIG, [prevCount |-> 1, nextCount |-> 1],
                  [prevCount |-> 0, nextCount |-> 1]}

NoWindow == [slides |-> <<>>, currentIndex |-> -1, startWordOffset |-> 0,
             chapterIndex |-> -1, endWordOffset |-> 0, slideWordCounts |-> <<>>]

VARIABLES
  pc,                 \* position of the running operation
  text,               \* the text handed to the chunker / the chapter text
  maxWords,           \* ChunkConfig.maxWords
  result,             \* the slides chunkText returned
  targetWordOffset,   \* computeWindow's targetWordOffset
  windowConfig,       \* computeWindow's windowConfig
  window,             \* the SlideWindow computeWindow returned
  located,            \* what findSlideIndexAtOffset returned
  book,               \* the chapters storageService holds for bookId
  progress,           \* the Position storageService holds for bookId
  kvChunkSize,        \* the value storageService holds under 'chunkSize'
  chapters,           \* ReaderPage state: chapters
  currentChapterIndex, \* ReaderPage state: currentChapterIndex
  currentSlideIndex,  \* ReaderPage state: currentSlideIndex
  slides,             \* ReaderPage state: slides
  chunkConfig,        \* ReaderPage state: chunkConfig
  loading,            \* ReaderPage state: loading
  effectPending,      \* the rechunk effect is scheduled after a render
  hung,               \* a call of chunkText never returned
  chunkCall,          \* the last call of chunkText the reader made
  lastStep,           \* the last handler that ran and the Position it ran at
  progressPercent,    \* findPositionFromProgress's progressPercent
  position,           \* the Position found, or the one handed to calculateProgress
  percent,            \* the Number calculateProgress returned
  readingEstimator,   \* ReaderPage ref: readingEstimator, a ReadingTimeEstimator
  freshEstimator,     \* an estimator constructed at the last reset
  lastCall,           \* the last call made on readingEstimator
  isAutoSwipeEnabled, \* ReaderPage state: isAutoSwipeEnabled
  isPaused,           \* ReaderPage state: isPaused
  showSettings,       \* ReaderPage state: showSettings
  showIndex,          \* ReaderPage state: showIndex
  touching,           \* ReaderPage ref: touchStartX is not null
  autoAdvanceTimer,   \* the timeout autoAdvanceTimerRef holds, while it is pending
  autoAdvanceDeps,    \* the dependencies the auto-advance effect last ran with
  kvAutoAdvanceEnabled \* the value storageService holds under 'autoAdvanceEnabled'

chunkVars == <<pc, text, maxWords, result>>

windowVars == <<targetWordOffset, windowConfig, window, located>>

storageVars == <<book, progress, kvChunkSize>>

pageVars == <<chapters, currentChapterIndex, currentSlideIndex, slides, chunkConfig,
              loading, effectPending, hung, chunkCall, lastStep>>

readerVars == <<storageVars, pageVars>>

progressVars == <<progressPercent, position, percent>>

estimatorVars == <<readingEstimator, freshEstimator, lastCall>>

autoVars == <<isAutoSwipeEnabled, isPaused, showSettings, showIndex, touching,
              autoAdvanceTimer, autoAdvanceDeps, kvAutoAdvanceEnabled>>

vars == <<chunkVars, windowVars, readerVars, progressVars, estimatorVars, autoVars>>

DEFAULT_CHUNK_CONFIG == [maxWords |-> 50]

NoProgress == [saved |-> FALSE, chapterIndex |-> 0, wordOffset |-> 0]
NoValue == [type |-> "undefined", value |-> 0]
NoCall == [called |-> FALSE, maxWords |-> 0, by |-> "none"]

\* the reader is not mounted
ReaderIdle ==
  /\ book = <<>>
  /\ progress = NoProgress
  /\ kvChunkSize = NoValue
  /\ chapters = <<>>
  /\ currentChapterIndex = 0
  /\ currentSlideIndex = 0
  /\ slides = <<>>
  /\ chunkConfig = DEFAULT_CHUNK_CONFIG
  /\ loading = FALSE
  /\ effectPending = FALSE
  /\ hung = FALSE
  /\ chunkCall = NoCall
  /\ lastStep = [op |-> "none", from |-> 0, at |-> 0]

NoPosition == [chapterIndex |-> -1, wordOffset |-> 0]

\* the progress translator is not in use
ProgressIdle ==
  /\ progressPercent = 0
  /\ position = NoPosition
  /\ percent = fromInt(0)

\* no call made on the estimator since it was constructed
NoCallYet ==
  [op |-> "new", timeSeconds |-> fromInt(0), before |-> NewEstimator, calls |-> 0,
   resets |-> FALSE]

\* addObservation(timeSeconds) called on readingEstimator
Observed(timeSeconds) ==
  [op |-> "addObservation", timeSeconds |-> timeSeconds, before |-> readingEstimator,
   calls |-> lastCall.calls + 1, resets |-> lastCall.resets]

\* autoAdvanceTimerRef holds no timeout.  A timeout is armed (pending) or has
\* fired; duration is its delay in milliseconds, elapsed the milliseconds
\* already spent on the slide when it was armed
NoTimer == [armed |-> FALSE, duration |-> fromInt(0), elapsed |-> 0]

BooleanValue(b) == [type |-> "boolean", value |-> b]

\* no touch, no panel, no timer: the page is not mounted
AutoIdle ==
  /\ isAutoSwipeEnabled = FALSE
  /\ isPaused = FALSE
  /\ showSettings = FALSE
  /\ showIndex = FALSE
  /\ touching = FALSE
  /\ autoAdvanceTimer = NoTimer
  /\ autoAdvanceDeps = <<>>
  /\ kvAutoAdvanceEnabled = NoValue

\* a newly constructed estimator
EstimatorIdle ==
  /\ readingEstimator = NewEstimator
  /\ freshEstimator = NewEstimator
  /\ lastCall = NoCallYet

(***************************************************************************)
(* SpecChunk: chunkText applied to every bounded text and configuration.   *)
(***************************************************************************)
InitChunk ==
  /\ pc = "input"
  /\ text \in Texts \cup FixtureTexts
  /\ maxWords \in Configs
  /\ result = <<>>
  /\ targetWordOffset = 0
  /\ windowConfig = DEFAULT_WINDOW_CONFIG
  /\ window = NoWindow
  /\ located = -1
  /\ ReaderIdle
  /\ ProgressIdle
  /\ EstimatorIdle
  /\ AutoIdle

ChunkText ==
  /\ pc = "input"
  /\ result' = chunkText(text, maxWords)
  /\ pc' = "chunked"
  /\ UNCHANGED <<text, maxWords, windowVars, readerVars, progressVars, estimatorVars, autoVars>>

ChunkTextFixed ==
  /\ pc = "input"
  /\ result' = chunkTextFixed(text)
  /\ pc' = "chunkedFixed"
  /\ UNCHANGED <<text, maxWords, windowVars, readerVars, progressVars, estimatorVars, autoVars>>

NextChunk == ChunkText \/ ChunkTextFixed

SpecChunk == InitChunk /\ [][NextChunk]_vars

(***************************************************************************)
(* SpecWindow: computeWindow applied to every bounded chapter, target      *)
(* offset (in and out of range), configuration and window size, then       *)
(* findSlideIndexAtOffset applied to the window at the target offset.      *)
(***************************************************************************)
chapterOf(t) == [text |-> t, chapterIndex |-> 0]

InitWindow ==
  /\ pc = "input"
  /\ text \in ChapterTexts \cup LongChapterTexts
  /\ maxWords \in Configs
  /\ result = <<>>
  /\ targetWordOffset \in -1..(countWords(text) + 1)
  /\ windowConfig \in WindowConfigs
  /\ window = NoWindow
  /\ located = -1
  /\ ReaderIdle
  /\ ProgressIdle
  /\ EstimatorIdle
  /\ AutoIdle

ComputeWindow ==
  /\ pc = "input"
  /\ window' = computeWindow(chapterOf(text), targetWordOffset, maxWords, windowConfig)
  /\ pc' = "window"
  /\ UNCHANGED <<text, maxWords, result, targetWordOffset, windowConfig, located, readerVars, progressVars, estimatorVars, autoVars>>

FindSlideIndexAtOffset ==
  /\ pc = "window"
  /\ located' = findSlideIndexAtOffset(window, targetWordOffset)
  /\ pc' = "located"
  /\ UNCHANGED <<text, maxWords, result, targetWordOffset, windowConfig, window, readerVars, progressVars, estimatorVars, autoVars>>

NextWindow == ComputeWindow \/ FindSlideIndexAtOffset

SpecWindow == InitWindow /\ [][NextWindow]_vars

(***************************************************************************)
(* SpecReader: a reading session of ReaderPage over a stored book.  The    *)
(* page mounts, loads its state, and then the reader taps forward and      *)
(* back, picks chapters from the index, moves the slide size slider, and   *)
(* leaves and reopens the book.  The rechunk effect runs after every       *)
(* render whose dependencies changed, before the next event is handled.    *)
(***************************************************************************)
\* the slider of the settings panel: min, max and step of the range input
SliderMin == 20
SliderMax == 100
SliderStep == 10

\* the values the range input can report
SliderValues == {v \in SliderMin..SliderMax : (v - SliderMin) % SliderStep = 0}

\* a stored key-value entry: a number, or a string of the given length
NumberValue(n) == [type |-> "number", value |-> n]
StringValue(n) == [type |-> "string", value |-> n]

\* JavaScript truthiness of a stored value
truthy(v) ==
  \/ v.type = "number" /\ v.value # 0
  \/ v.type = "string" /\ v.value > 0

\* what storage may hold under 'chunkSize' when the book is opened: nothing,
\* or a value left there by anything that writes the key-value store
PersistedChunkSizes == {NoValue, NumberValue(0), NumberValue(-20), StringValue(2)}

\* a paragraph of sentences with the given numbers of words
RECURSIVE Paragraph(_)
Paragraph(lens) ==
  IF lens = <<>> THEN <<>>
  ELSE IF Len(lens) = 1 THEN SentenceOf(lens[1])
  ELSE SentenceOf(lens[1]) \o <<" ">> \o Paragraph(Tail(lens))

\* a stored chapter: its text and the word count recorded at import
ChapterOf(lens) == [text |-> Paragraph(lens), words |-> SumSeq(lens)]

\* the last book has a chapter without text (a cover or an image page)
Books ==
  { <<ChapterOf(<<12, 12, 12>>), ChapterOf(<<45>>)>>,
    <<ChapterOf(<<45>>), ChapterOf(<<12, 12, 12>>), ChapterOf(<<25>>)>>,
    <<ChapterOf(<<25>>), ChapterOf(<<>>), ChapterOf(<<25>>)>> }

\* slides[i].split(/\s+/).filter(w => w.trim().length > 0).length
slideWordCount(slide) == Len(SelectSeq(splitWs(slide), LAMBDA w : Len(trim(w)) > 0))

RECURSIVE wordOffsetLoop(_, _, _, _)
wordOffsetLoop(wordOffset, sl, i, currentWordCount) ==
  IF i >= Len(sl) THEN Max(0, Len(sl) - 1)
  ELSE IF currentWordCount + slideWordCount(sl[i + 1]) > wordOffset THEN i
  ELSE wordOffsetLoop(wordOffset, sl, i + 1, currentWordCount + slideWordCount(sl[i + 1]))

wordOffsetToSlideIndex(wordOffset, sl) == wordOffsetLoop(wordOffset, sl, 0, 0)

slideIndexToWordOffset(slideIndex, sl) ==
  SumSeq([i \in 1..Min(Max(slideIndex, 0), Len(sl)) |-> slideWordCount(sl[i])])

\* chunkText returns unless it hands splitLongSentence a sentence on which the
\* split loop does not advance
chunkTextReturns(t, mw) ==
  \/ Len(trim(t)) = 0
  \/ LET sentences == splitIntoSentences(t)
     IN \A i \in 1..Len(sentences) :
          countWords(sentences[i]) > mw => splitLongSentenceTerminates(sentences[i], mw)

getTotalWords(chs) == SumSeq([i \in 1..Len(chs) |-> chs[i].words])

getWordsBeforeChapter(chs, chapterIndex) ==
  SumSeq([i \in 1..Min(Max(chapterIndex, 0), Len(chs)) |-> chs[i].words])

\* (wordsBefore + wordOffset) / totalWords * 100 as the fraction num / den
percentAt(chapterIndex, wordOffset) ==
  [num |-> (getWordsBeforeChapter(chapters, chapterIndex) + wordOffset) * 100,
   den |-> getTotalWords(chapters)]

\* the percentage shown (0 for an empty book)
currentProgress ==
  IF Len(chapters) > 0 /\ getTotalWords(chapters) # 0
  THEN percentAt(currentChapterIndex, slideIndexToWordOffset(currentSlideIndex, slides))
  ELSE [num |-> 0, den |-> 1]

\* a handler running at the Position displayed; a run of slider moves counts
\* as one step, begun at the Position of its first move
Step(op) ==
  [op |-> op, from |-> currentChapterIndex,
   at |-> slideIndexToWordOffset(currentSlideIndex, slides)]

Saved(chapterIndex, wordOffset) ==
  [saved |-> TRUE, chapterIndex |-> chapterIndex, wordOffset |-> wordOffset]

\* the state of a freshly mounted page
Mounted ==
  /\ chapters = <<>>
  /\ currentChapterIndex = 0
  /\ currentSlideIndex = 0
  /\ slides = <<>>
  /\ chunkConfig = DEFAULT_CHUNK_CONFIG
  /\ loading = TRUE
  /\ effectPending = TRUE
  /\ hung = FALSE
  /\ chunkCall = NoCall
  /\ lastStep = [op |-> "mount", from |-> 0, at |-> 0]
  /\ readingEstimator = NewEstimator
  /\ lastCall = NoCallYet
  /\ isAutoSwipeEnabled = FALSE
  /\ isPaused = FALSE
  /\ showSettings = FALSE
  /\ showIndex = FALSE
  /\ touching = FALSE
  /\ autoAdvanceTimer = NoTimer
  /\ autoAdvanceDeps = <<>>

\* the reader opened on a device where auto-swipe was switched off
InitReader ==
  /\ pc = "reader"
  /\ text = <<>>
  /\ maxWords = DEFAULT_CHUNK_CONFIG.maxWords
  /\ result = <<>>
  /\ targetWordOffset = 0
  /\ windowConfig = DEFAULT_WINDOW_CONFIG
  /\ window = NoWindow
  /\ located = -1
  /\ book \in Books
  /\ progress = NoProgress
  /\ kvChunkSize \in PersistedChunkSizes
  /\ kvAutoAdvanceEnabled = BooleanValue(FALSE)
  /\ Mounted
  /\ ProgressIdle
  /\ freshEstimator = NewEstimator

\* the page is idle: loaded, rendered, its effects run
Settled == ~loading /\ ~effectPending /\ ~hung

loadReaderState ==
  /\ loading /\ ~hung
  /\ LET usable == truthy(kvChunkSize) /\ kvChunkSize.type = "number"
         config == IF usable THEN [maxWords |-> kvChunkSize.value] ELSE DEFAULT_CHUNK_CONFIG
         startChapterIndex == IF progress.saved THEN progress.chapterIndex ELSE 0
         startWordOffset == IF progress.saved THEN progress.wordOffset ELSE 0
         initialChapter == book[startChapterIndex + 1]
     IN /\ chapters' = book
        /\ isAutoSwipeEnabled' = IF kvAutoAdvanceEnabled = NoValue THEN TRUE
                                 ELSE kvAutoAdvanceEnabled.value
        /\ chunkConfig' = config
        /\ currentChapterIndex' = startChapterIndex
        /\ chunkCall' = [called |-> TRUE, maxWords |-> config.maxWords, by |-> "loadReaderState"]
        /\ IF chunkTextReturns(initialChapter.text, config.maxWords)
           THEN LET initialSlides == chunkText(initialChapter.text, config.maxWords)
                IN /\ slides' = initialSlides
                   /\ currentSlideIndex' = wordOffsetToSlideIndex(startWordOffset, initialSlides)
                   /\ loading' = FALSE
                   /\ hung' = FALSE
           ELSE /\ hung' = TRUE
                /\ UNCHANGED <<slides, currentSlideIndex, loading>>
  /\ effectPending' = TRUE
  /\ lastStep' = [op |-> "load", from |-> 0, at |-> 0]
  /\ UNCHANGED <<chunkVars, windowVars, progressVars, estimatorVars, storageVars>>
  /\ UNCHANGED <<isPaused, showSettings, showIndex, touching, autoAdvanceTimer,
                 autoAdvanceDeps, kvAutoAdvanceEnabled>>

RechunkEffect ==
  /\ effectPending /\ ~hung
  /\ IF Len(chapters) = 0 \/ currentChapterIndex >= Len(chapters)
     THEN /\ effectPending' = FALSE
          /\ UNCHANGED <<slides, currentSlideIndex, hung, chunkCall>>
     ELSE LET currentChapter == chapters[currentChapterIndex + 1]
          IN /\ chunkCall' = [called |-> TRUE, maxWords |-> chunkConfig.maxWords, by |-> "rechunk"]
             /\ IF ~chunkTextReturns(currentChapter.text, chunkConfig.maxWords)
                THEN /\ hung' = TRUE
                     /\ UNCHANGED <<slides, currentSlideIndex, effectPending>>
                ELSE LET newSlides == chunkText(currentChapter.text, chunkConfig.maxWords)
                         slidesChanged == newSlides # slides
                     IN /\ hung' = FALSE
                        /\ effectPending' = slidesChanged
                        /\ IF ~slidesChanged
                           THEN UNCHANGED <<slides, currentSlideIndex>>
                           ELSE /\ slides' = newSlides
                                /\ IF Len(slides) > 0 /\ currentSlideIndex < Len(slides)
                                   THEN currentSlideIndex' =
                                          wordOffsetToSlideIndex(
                                            slideIndexToWordOffset(currentSlideIndex, slides), newSlides)
                                   ELSE currentSlideIndex' = 0
  /\ UNCHANGED <<chunkVars, windowVars, progressVars, estimatorVars, storageVars, chapters, currentChapterIndex,
                 chunkConfig, loading, lastStep>>

\* Math.ceil of a non-negative double below 2^26: the whole milliseconds a
\* timeout of that duration takes
ceilD(x) ==
  IF shiftLeft(shiftRight(x.m, x.e), x.e) = x.m THEN floorD(x) ELSE floorD(x) + 1

\* what the auto-advance effect depends on: its own dependencies and those
\* of goToNext, which startAutoAdvance is rebuilt from
autoAdvanceDependencies ==
  <<isAutoSwipeEnabled, isPaused, showSettings, showIndex, currentChapterIndex,
    Len(chapters), loading, slides, currentSlideIndex>>

\* an auto-advance effect that does not ask the estimator
shouldAutoAdvanceUnproven ==
  /\ isAutoSwipeEnabled
  /\ ~isPaused
  /\ ~showSettings
  /\ ~showIndex
  /\ currentChapterIndex < Len(chapters)
  /\ ~loading

shouldAutoAdvance ==
  /\ isAutoSwipeEnabled
  /\ ~isPaused
  /\ ~showSettings
  /\ ~showIndex
  /\ currentChapterIndex < Len(chapters)
  /\ ~loading
  /\ shouldEnableAutoplay(readingEstimator)

\* startAutoAdvance: the timeout armed for predict() * 1000 milliseconds
\* mutant: the timeout is armed for the average alone, without the buffer
startAutoAdvanceWithoutBuffer ==
  [armed |-> TRUE, duration |-> fmulInt(predictWithoutBuffer(readingEstimator), 1000),
   elapsed |-> 0]

startAutoAdvance ==
  [armed |-> TRUE, duration |-> fmulInt(predict(readingEstimator), 1000), elapsed |-> 0]

\* the time a slide has been shown when auto-advance resumes on it after a
\* touch, a panel or the switch, in milliseconds
PausedMs == {3000}

\* the effect runs in the render that follows the entry of a slide (a
\* navigation step or a rechunk), where slideEntryTime is the present
slideEntered ==
  \/ Len(autoAdvanceDeps) = 0
  \/ <<autoAdvanceDeps[5], autoAdvanceDeps[8], autoAdvanceDeps[9]>>
       # <<currentChapterIndex, slides, currentSlideIndex>>

\* mutant: an effect without cleanup, whose body starts a timer and never
\* stops one
AutoAdvanceEffectWithoutStop ==
  /\ IF hung' \/ autoAdvanceDependencies = autoAdvanceDeps
     THEN UNCHANGED <<autoAdvanceTimer, autoAdvanceDeps>>
     ELSE /\ autoAdvanceDeps' = autoAdvanceDependencies
          /\ IF shouldAutoAdvance
             THEN autoAdvanceTimer' = startAutoAdvance
             ELSE UNCHANGED autoAdvanceTimer
  /\ UNCHANGED <<isAutoSwipeEnabled, isPaused, showSettings, showIndex, touching,
                 kvAutoAdvanceEnabled>>

\* mutant: an effect without dependencies, run after every render
AutoAdvanceEffectEveryRender ==
  /\ IF hung'
     THEN UNCHANGED <<autoAdvanceTimer, autoAdvanceDeps>>
     ELSE /\ autoAdvanceDeps' = autoAdvanceDependencies
          /\ autoAdvanceTimer' = IF shouldAutoAdvance THEN startAutoAdvance ELSE NoTimer
  /\ UNCHANGED <<isAutoSwipeEnabled, isPaused, showSettings, showIndex, touching,
                 kvAutoAdvanceEnabled>>

\* the auto-advance effect, run in the flush of a render that changed one of
\* its dependencies (after the rechunk effect, if that one returned): its
\* cleanup stops the timer, its body starts one or stops
AutoAdvanceEffect ==
  /\ IF hung' \/ autoAdvanceDependencies = autoAdvanceDeps
     THEN UNCHANGED <<autoAdvanceTimer, autoAdvanceDeps>>
     ELSE /\ autoAdvanceDeps' = autoAdvanceDependencies
          /\ IF shouldAutoAdvance
             THEN \E elapsed \in (IF slideEntered THEN {0} ELSE PausedMs) :
                    autoAdvanceTimer' = [startAutoAdvance EXCEPT !.elapsed = elapsed]
             ELSE autoAdvanceTimer' = NoTimer
  /\ UNCHANGED <<isAutoSwipeEnabled, isPaused, showSettings, showIndex, touching,
                 kvAutoAdvanceEnabled>>

\* the passive effects of a render, in the order the page declares them
FlushEffects == RechunkEffect /\ AutoAdvanceEffect

MaxDwells == 6

\* the times a reader stays on a slide, in milliseconds
DwellMs == {6000}

DwellTimes == {fdivInt(ms, 1000) : ms \in DwellMs}

\* goToNext, timeSpent seconds after the slide was entered
goToNextAfter(timeSpent) ==
  /\ IF Len(slides) = 0 \/ Len(chapters) = 0 \/ currentChapterIndex >= Len(chapters)
     THEN /\ lastStep' = Step("nextIgnored")
          /\ UNCHANGED <<currentChapterIndex, currentSlideIndex, progress,
                         readingEstimator, lastCall>>
     ELSE /\ readingEstimator.n < MaxDwells
          /\ readingEstimator' = addObservation(readingEstimator, timeSpent)
          /\ lastCall' = Observed(timeSpent)
          /\ IF currentSlideIndex < Len(slides) - 1
             THEN /\ currentSlideIndex' = currentSlideIndex + 1
                  /\ progress' = Saved(currentChapterIndex,
                                       slideIndexToWordOffset(currentSlideIndex + 1, slides))
                  /\ lastStep' = Step("nextSlide")
                  /\ UNCHANGED currentChapterIndex
             ELSE IF currentChapterIndex < Len(chapters) - 1
                  THEN /\ currentChapterIndex' = currentChapterIndex + 1
                       /\ currentSlideIndex' = 0
                       /\ progress' = Saved(currentChapterIndex + 1, 0)
                       /\ lastStep' = Step("nextChapter")
                  ELSE /\ lastStep' = Step("endOfBook")
                       /\ UNCHANGED <<currentChapterIndex, currentSlideIndex, progress>>
  /\ effectPending' = TRUE
  /\ UNCHANGED <<chunkVars, windowVars, progressVars, freshEstimator, book, kvChunkSize, chapters,
                 slides, chunkConfig, loading, hung, chunkCall>>

\* a tap on the right third of the page while auto-swipe is off
goToNext ==
  /\ Settled
  /\ \E timeSpent \in DwellTimes : goToNextAfter(timeSpent)
  /\ UNCHANGED autoVars

\* the body of goToPrevious
goToPreviousNow ==
  /\ IF Len(slides) = 0 \/ Len(chapters) = 0 \/ currentChapterIndex >= Len(chapters)
     THEN /\ lastStep' = Step("previousIgnored")
          /\ UNCHANGED <<currentChapterIndex, currentSlideIndex, progress, hung, chunkCall>>
     ELSE IF currentSlideIndex > 0
     THEN /\ currentSlideIndex' = currentSlideIndex - 1
          /\ progress' = Saved(currentChapterIndex,
                               slideIndexToWordOffset(currentSlideIndex - 1, slides))
          /\ lastStep' = Step("prevSlide")
          /\ UNCHANGED <<currentChapterIndex, hung, chunkCall>>
     ELSE IF currentChapterIndex > 0
     THEN LET prevChapterIndex == currentChapterIndex - 1
              prevChapter == chapters[prevChapterIndex + 1]
          IN /\ currentChapterIndex' = prevChapterIndex
             /\ chunkCall' = [called |-> TRUE, maxWords |-> chunkConfig.maxWords, by |-> "goToPrevious"]
             /\ lastStep' = Step("prevChapter")
             /\ IF ~chunkTextReturns(prevChapter.text, chunkConfig.maxWords)
                THEN /\ hung' = TRUE
                     /\ UNCHANGED <<currentSlideIndex, progress>>
                ELSE LET prevSlides == chunkText(prevChapter.text, chunkConfig.maxWords)
                         lastSlideIndex == Max(0, Len(prevSlides) - 1)
                     IN /\ hung' = FALSE
                        /\ currentSlideIndex' = lastSlideIndex
                        /\ progress' = Saved(prevChapterIndex,
                                             slideIndexToWordOffset(lastSlideIndex, prevSlides))
     ELSE /\ lastStep' = Step("startOfBook")
          /\ UNCHANGED <<currentChapterIndex, currentSlideIndex, progress, hung, chunkCall>>
  /\ effectPending' = ~hung'
  /\ UNCHANGED <<chunkVars, windowVars, progressVars, estimatorVars, book, kvChunkSize, chapters,
                 slides, chunkConfig, loading>>

\* a tap on the left third of the page while auto-swipe is off
goToPrevious ==
  /\ Settled
  /\ currentSlideIndex > 0 \/ currentChapterIndex > 0
  /\ goToPreviousNow
  /\ UNCHANGED autoVars

\* a chapter button of the index panel; the choice closes the panel
SelectChapter ==
  /\ Settled
  /\ ~touching
  /\ \E index \in 0..(Len(chapters) - 1) :
       /\ currentChapterIndex' = index
       /\ currentSlideIndex' = 0
       /\ progress' = Saved(index, 0)
  /\ showIndex' = FALSE
  /\ lastStep' = Step("selectChapter")
  /\ effectPending' = TRUE
  /\ UNCHANGED <<chunkVars, windowVars, progressVars, estimatorVars, book, kvChunkSize, chapters, slides, chunkConfig,
                 loading, hung, chunkCall>>
  /\ UNCHANGED <<isAutoSwipeEnabled, isPaused, showSettings, touching, autoAdvanceTimer,
                 autoAdvanceDeps, kvAutoAdvanceEnabled>>

\* onChange of the slide size slider
ChangeChunkSize ==
  /\ Settled
  /\ \E newSize \in SliderValues \ {chunkConfig.maxWords} :
       /\ chunkConfig' = [maxWords |-> newSize]
       /\ kvChunkSize' = NumberValue(newSize)
  /\ lastStep' = IF lastStep.op = "changeChunkSize" THEN lastStep ELSE Step("changeChunkSize")
  /\ effectPending' = TRUE
  /\ UNCHANGED <<chunkVars, windowVars, progressVars, estimatorVars, book, progress, chapters, currentChapterIndex,
                 currentSlideIndex, slides, loading, hung, chunkCall>>
  /\ UNCHANGED autoVars

\* onExit, and the book opened again: the page is unmounted (the cleanup of
\* the auto-advance effect stops the timer) and mounted afresh, with a new
\* estimator, over what storage holds
ExitAndReopen ==
  /\ Settled
  /\ chapters' = <<>>
  /\ currentChapterIndex' = 0
  /\ currentSlideIndex' = 0
  /\ slides' = <<>>
  /\ chunkConfig' = DEFAULT_CHUNK_CONFIG
  /\ loading' = TRUE
  /\ effectPending' = TRUE
  /\ hung' = FALSE
  /\ chunkCall' = NoCall
  /\ lastStep' = [op |-> "mount", from |-> 0, at |-> 0]
  /\ readingEstimator' = NewEstimator
  /\ lastCall' = NoCallYet
  /\ isAutoSwipeEnabled' = FALSE
  /\ isPaused' = FALSE
  /\ showSettings' = FALSE
  /\ showIndex' = FALSE
  /\ touching' = FALSE
  /\ autoAdvanceTimer' = NoTimer
  /\ autoAdvanceDeps' = <<>>
  /\ UNCHANGED <<chunkVars, windowVars, progressVars, freshEstimator, storageVars,
                 kvAutoAdvanceEnabled>>

NextReader ==
  \/ loadReaderState
  \/ FlushEffects
  \/ goToNext
  \/ goToPrevious
  \/ SelectChapter
  \/ ChangeChunkSize
  \/ ExitAndReopen

SpecReader == InitReader /\ [][NextReader]_vars

(***************************************************************************)
(* SpecAutoAdvance: a reading session with auto-swipe: touches, the index  *)
(* and settings panels, the auto-swipe switch and the auto-advance timer,  *)
(* over a book of five slides at 20 words per slide.                       *)
(***************************************************************************)
InitAutoAdvance ==
  /\ pc = "reader"
  /\ text = <<>>
  /\ maxWords = DEFAULT_CHUNK_CONFIG.maxWords
  /\ result = <<>>
  /\ targetWordOffset = 0
  /\ windowConfig = DEFAULT_WINDOW_CONFIG
  /\ window = NoWindow
  /\ located = -1
  /\ book = <<ChapterOf(<<12, 12, 12>>), ChapterOf(<<25>>)>>
  /\ progress = NoProgress
  /\ kvChunkSize = NumberValue(SliderMin)
  /\ kvAutoAdvanceEnabled = NoValue
  /\ Mounted
  /\ ProgressIdle
  /\ freshEstimator = NewEstimator

handleTouchStart ==
  /\ Settled
  /\ ~touching
  /\ touching' = TRUE
  /\ isPaused' = IF isAutoSwipeEnabled THEN TRUE ELSE isPaused
  /\ effectPending' = TRUE
  /\ lastStep' = Step("touchStart")
  /\ UNCHANGED <<chunkVars, windowVars, progressVars, estimatorVars, storageVars, chapters,
                 currentChapterIndex, currentSlideIndex, slides, chunkConfig, loading, hung,
                 chunkCall>>
  /\ UNCHANGED <<isAutoSwipeEnabled, showSettings, showIndex, autoAdvanceTimer,
                 autoAdvanceDeps, kvAutoAdvanceEnabled>>

\* the touch ends as a tap on the left third, on the right third or on the
\* centre of the page, or as something longer or wider than a tap
handleTouchEnd ==
  /\ Settled
  /\ touching
  /\ touching' = FALSE
  /\ \/ /\ goToPreviousNow
        /\ isPaused' = FALSE
     \/ /\ \E timeSpent \in DwellTimes : goToNextAfter(timeSpent)
        /\ isPaused' = FALSE
     \/ /\ lastStep' = Step("tapCentre")
        /\ effectPending' = TRUE
        /\ UNCHANGED <<chunkVars, windowVars, progressVars, estimatorVars, storageVars, chapters,
                       currentChapterIndex, currentSlideIndex, slides, chunkConfig, loading, hung,
                       chunkCall, isPaused>>
     \/ /\ isPaused' = FALSE
        /\ lastStep' = Step("touchEnd")
        /\ effectPending' = TRUE
        /\ UNCHANGED <<chunkVars, windowVars, progressVars, estimatorVars, storageVars, chapters,
                       currentChapterIndex, currentSlideIndex, slides, chunkConfig, loading, hung,
                       chunkCall>>
  /\ UNCHANGED <<isAutoSwipeEnabled, showSettings, showIndex, autoAdvanceTimer,
                 autoAdvanceDeps, kvAutoAdvanceEnabled>>

\* the index button of the controls, or the backdrop or the close button of
\* the panel
ToggleIndex ==
  /\ Settled
  /\ ~touching
  /\ ~showSettings
  /\ showIndex' = ~showIndex
  /\ effectPending' = TRUE
  /\ lastStep' = Step("toggleIndex")
  /\ UNCHANGED <<chunkVars, windowVars, progressVars, estimatorVars, storageVars, chapters,
                 currentChapterIndex, currentSlideIndex, slides, chunkConfig, loading, hung,
                 chunkCall>>
  /\ UNCHANGED <<isAutoSwipeEnabled, isPaused, showSettings, touching, autoAdvanceTimer,
                 autoAdvanceDeps, kvAutoAdvanceEnabled>>

\* the settings button of the controls, or the backdrop or the close button
\* of the panel
ToggleSettings ==
  /\ Settled
  /\ ~touching
  /\ ~showIndex
  /\ showSettings' = ~showSettings
  /\ effectPending' = TRUE
  /\ lastStep' = Step("toggleSettings")
  /\ UNCHANGED <<chunkVars, windowVars, progressVars, estimatorVars, storageVars, chapters,
                 currentChapterIndex, currentSlideIndex, slides, chunkConfig, loading, hung,
                 chunkCall>>
  /\ UNCHANGED <<isAutoSwipeEnabled, isPaused, showIndex, touching, autoAdvanceTimer,
                 autoAdvanceDeps, kvAutoAdvanceEnabled>>

\* the auto-swipe switch of the settings panel
ToggleAutoSwipe ==
  /\ Settled
  /\ ~touching
  /\ showSettings
  /\ LET newValue == ~isAutoSwipeEnabled
     IN /\ isAutoSwipeEnabled' = newValue
        /\ kvAutoAdvanceEnabled' = BooleanValue(newValue)
  /\ effectPending' = TRUE
  /\ lastStep' = Step("toggleAutoSwipe")
  /\ UNCHANGED <<chunkVars, windowVars, progressVars, estimatorVars, storageVars, chapters,
                 currentChapterIndex, currentSlideIndex, slides, chunkConfig, loading, hung,
                 chunkCall>>
  /\ UNCHANGED <<isPaused, showSettings, showIndex, touching, autoAdvanceTimer, autoAdvanceDeps>>

\* the timeout of startAutoAdvance fires, duration milliseconds after it was
\* armed, and calls goToNext; autoAdvanceTimerRef keeps the fired timeout
AutoAdvanceTimeout ==
  /\ Settled
  /\ autoAdvanceTimer.armed
  /\ goToNextAfter(fdivInt(ceilD(autoAdvanceTimer.duration) + autoAdvanceTimer.elapsed, 1000))
  /\ autoAdvanceTimer' = [autoAdvanceTimer EXCEPT !.armed = FALSE]
  /\ UNCHANGED <<isAutoSwipeEnabled, isPaused, showSettings, showIndex, touching,
                 autoAdvanceDeps, kvAutoAdvanceEnabled>>

NextAutoAdvance ==
  \/ loadReaderState
  \/ FlushEffects
  \/ handleTouchStart
  \/ handleTouchEnd
  \/ ToggleIndex
  \/ ToggleSettings
  \/ ToggleAutoSwipe
  \/ SelectChapter
  \/ AutoAdvanceTimeout
  \/ ExitAndReopen

SpecAutoAdvance == InitAutoAdvance /\ [][NextAutoAdvance]_vars

(***************************************************************************)
(* SpecProgress: the progress translator of SlidingWindowHelper applied to *)
(* every bounded chapter list, to every whole percentage and to every      *)
(* Position of the list; calculateProgress is also applied to the Position *)
(* findPositionFromProgress returned.                                      *)
(***************************************************************************)
MaxChapters == 2
MaxPercent == 102

\* word counts of the chapters of the bounded books
WordCounts == {0, 20, 30, 100}

ChapterLists ==
  UNION {[1..k -> {[text |-> <<>>, words |-> w] : w \in WordCounts}] : k \in 0..MaxChapters}

RECURSIVE findPositionLoop(_, _, _)
findPositionLoop(chs, i, remainingWords) ==
  IF i >= Len(chs)
  THEN [chapterIndex |-> Len(chs) - 1,
        wordOffset |-> IF Len(chs) > 0 THEN chs[Len(chs)].words ELSE 0]
  ELSE IF remainingWords <= chs[i + 1].words
       THEN [chapterIndex |-> i, wordOffset |-> remainingWords]
       ELSE findPositionLoop(chs, i + 1, remainingWords - chs[i + 1].words)

findPositionFromProgress(chs, percentArg) ==
  LET totalWords == getTotalWords(chs)
      targetWordPosition == floorD(fmulInt(fdivInt(percentArg, 100), totalWords))
  IN findPositionLoop(chs, 0, targetWordPosition)

\* a translator that leaves out the words of the chapters before
calculateProgressInChapter(chs, chapterIndex, wordOffset) ==
  LET totalWords == getTotalWords(chs)
  IN IF totalWords = 0 THEN fromInt(0)
     ELSE fmulInt(fdivInt(wordOffset, totalWords), 100)

calculateProgress(chs, chapterIndex, wordOffset) ==
  LET totalWords == getTotalWords(chs)
      wordsBefore == getWordsBeforeChapter(chs, chapterIndex)
      currentPosition == wordsBefore + wordOffset
  IN IF totalWords = 0 THEN fromInt(0)
     ELSE fmulInt(fdivInt(currentPosition, totalWords), 100)

\* the Positions of a chapter list
PositionsOf(chs) ==
  UNION {{[chapterIndex |-> i, wordOffset |-> r] : r \in 0..chs[i + 1].words} :
           i \in 0..(Len(chs) - 1)}

InitProgress ==
  /\ text = <<>>
  /\ maxWords = DEFAULT_CHUNK_CONFIG.maxWords
  /\ result = <<>>
  /\ targetWordOffset = 0
  /\ windowConfig = DEFAULT_WINDOW_CONFIG
  /\ window = NoWindow
  /\ located = -1
  /\ book = <<>>
  /\ progress = NoProgress
  /\ kvChunkSize = NoValue
  /\ chapters \in ChapterLists
  /\ currentChapterIndex = 0
  /\ currentSlideIndex = 0
  /\ slides = <<>>
  /\ chunkConfig = DEFAULT_CHUNK_CONFIG
  /\ loading = FALSE
  /\ effectPending = FALSE
  /\ hung = FALSE
  /\ chunkCall = NoCall
  /\ lastStep = [op |-> "none", from |-> 0, at |-> 0]
  /\ percent = fromInt(0)
  /\ EstimatorIdle
  /\ AutoIdle
  /\ \/ /\ pc = "percent"
        /\ progressPercent \in 0..MaxPercent
        /\ position = NoPosition
     \/ /\ pc = "position"
        /\ progressPercent = 0
        /\ position \in PositionsOf(chapters)

FindPositionFromProgress ==
  /\ pc = "percent"
  /\ position' = findPositionFromProgress(chapters, progressPercent)
  /\ pc' = "found"
  /\ UNCHANGED <<text, maxWords, result, windowVars, readerVars, estimatorVars, autoVars, progressPercent, percent>>

CalculateProgress ==
  /\ pc \in {"position", "found"}
  /\ percent' = calculateProgress(chapters, position.chapterIndex, position.wordOffset)
  /\ pc' = IF pc = "found" THEN "roundTrip" ELSE "calculated"
  /\ UNCHANGED <<text, maxWords, result, windowVars, readerVars, estimatorVars, autoVars, progressPercent, position>>

NextProgress == FindPositionFromProgress \/ CalculateProgress

SpecProgress == InitProgress /\ [][NextProgress]_vars

(***************************************************************************)
(* SpecEstimator: a ReadingTimeEstimator fed every bounded sequence of     *)
(* observations and resets.  freshEstimator is a second estimator, newly   *)
(* constructed at each reset of the first and fed the same observations.   *)
(***************************************************************************)
MaxObservations == 6

\* the dwell times observed, in milliseconds; an observation is ms / 1000
ObservedMs == {2000, 6000, 10000}

Observations == {fdivInt(ms, 1000) : ms \in ObservedMs}

InitEstimator ==
  /\ pc = "estimator"
  /\ text = <<>>
  /\ maxWords = DEFAULT_CHUNK_CONFIG.maxWords
  /\ result = <<>>
  /\ targetWordOffset = 0
  /\ windowConfig = DEFAULT_WINDOW_CONFIG
  /\ window = NoWindow
  /\ located = -1
  /\ ReaderIdle
  /\ ProgressIdle
  /\ EstimatorIdle
  /\ AutoIdle

AddObservation ==
  /\ pc = "estimator"
  /\ readingEstimator.n < MaxObservations
  /\ \E timeSeconds \in Observations :
       /\ readingEstimator' = addObservation(readingEstimator, timeSeconds)
       /\ freshEstimator' = addObservation(freshEstimator, timeSeconds)
       /\ lastCall' = Observed(timeSeconds)
  /\ UNCHANGED <<chunkVars, windowVars, readerVars, progressVars, autoVars>>

Reset ==
  /\ pc = "estimator"
  /\ readingEstimator' = reset(readingEstimator)
  /\ freshEstimator' = NewEstimator
  /\ lastCall' = [op |-> "reset", timeSeconds |-> fromInt(0), before |-> readingEstimator,
                  calls |-> 0, resets |-> TRUE]
  /\ UNCHANGED <<chunkVars, windowVars, readerVars, progressVars, autoVars>>

NextEstimator == AddObservation \/ Reset

SpecEstimator == InitEstimator /\ [][NextEstimator]_vars

(***************************************************************************)
(* Claims about the chunker (SpecChunk).                                   *)
(***************************************************************************)
\* s.split(/\s+/).filter(w => w.length > 0), the re-tokenisation of the tests
wordsOf(s) == SelectNonEmpty(splitWs(s))

slideWordCountsOf(sl) == [i \in 1..Len(sl) |-> Len(wordsOf(sl[i]))]

\* the words of sentences i..j of a sentence list, in order
RECURSIVE wordsOfSentences(_, _, _)
wordsOfSentences(sents, i, j) ==
  IF i > j \/ i > Len(sents) THEN <<>>
  ELSE wordsOf(sents[i]) \o wordsOfSentences(sents, i + 1, j)

\* C1: joining the slides chunkText returns with single spaces and splitting
\* on whitespace gives the word sequence of the original text: no word is
\* lost, duplicated or reordered.
C1_Lossless ==
  pc = "chunked" => wordsOf(join(result, <<" ">>)) = wordsOf(text)

\* C2: every slide chunkText returns under a ChunkConfig with maxWords >= 1
\* has at most maxWords whitespace-separated words.
C2_CapInvariant ==
  pc = "chunked" => \A i \in 1..Len(result) : Len(wordsOf(result[i])) <= maxWords

\* C2 witness: a text with more words than the cap was chunked into several
\* slides, one of them filled to the cap by the word-boundary split.
C2_Witness ==
  /\ pc = "chunked"
  /\ \E i \in 1..Len(splitIntoSentences(text)) :
       countWords(splitIntoSentences(text)[i]) > maxWords
  /\ Len(result) >= 2
  /\ \E i \in 1..Len(result) : Len(wordsOf(result[i])) = maxWords

\* the sentences are grouped two by two in source order, a last single one
\* when their number is odd
GroupedByTwo(sents, sl) ==
  /\ Len(sl) = (Len(sents) + 1) \div 2
  /\ \A j \in 1..Len(sl) :
       sl[j] = join(SubSeq(sents, 2 * j - 1, Min(2 * j, Len(sents))), <<" ">>)

\* no group of two consecutive sentences has more than cap words
NoGroupReachesCap(sents, cap) ==
  \A j \in 1..((Len(sents) + 1) \div 2) :
    Len(wordsOfSentences(sents, 2 * j - 1, 2 * j)) <= cap

\* C9: chunkText puts at most 2 sentences on a slide: when no slide reaches
\* the word cap, k sentences give ceil(k/2) slides grouped 2, 2, ... in source
\* order with a final single sentence when k is odd.
C9_TwoSentencesPerSlide ==
  (/\ pc = "chunked"
   /\ Len(wordsOf(text)) > 0
   /\ NoGroupReachesCap(splitIntoSentences(text), maxWords))
     => GroupedByTwo(splitIntoSentences(text), result)

\* C10: when the words accumulated for a slide exceed the cap, the slide is
\* exactly the first cap words and the remaining words lead the next slide.
\* Stated for the first slide, whose accumulation is the first two sentences
\* (or one sentence longer than the cap) with no carry-over before it.
C10_SplitAndCarry ==
  (pc \in {"chunked", "chunkedFixed"} /\ Len(wordsOf(text)) > 0) =>
    LET cap == IF pc = "chunked" THEN maxWords ELSE MAX_WORDS_PER_SLIDE
        sents == splitIntoSentences(text)
        acc == IF Len(wordsOf(sents[1])) > cap THEN wordsOf(sents[1])
               ELSE wordsOfSentences(sents, 1, 2)
        rest == SubSeq(acc, cap + 1, Len(acc))
    IN Len(acc) > cap =>
         /\ Len(result) >= 2
         /\ wordsOf(result[1]) = SubSeq(acc, 1, cap)
         /\ Len(wordsOf(result[2])) >= Min(Len(rest), cap)
         /\ SubSeq(wordsOf(result[2]), 1, Min(Len(rest), cap)) = SubSeq(rest, 1, Min(Len(rest), cap))

(***************************************************************************)
(* Claims about the window positioner (SpecWindow).                        *)
(***************************************************************************)
chapterWordCount == countWordsInTokens(splitIntoWords(text))

currentIndexValid(w) == w.currentIndex >= 0 /\ w.currentIndex < Len(w.slides)

\* C3: for a non-empty chapter and 0 <= wordOffset < chapter word count, under
\* every ChunkConfig the window computed at wordOffset contains wordOffset and
\* findSlideIndexAtOffset returns currentIndex, a slide whose word range
\* [getOffsetAtSlideIndex, + slideWordCounts) contains wordOffset.
C3_PositionStability ==
  (pc = "located" /\ targetWordOffset >= 0 /\ targetWordOffset < chapterWordCount) =>
    /\ isWithinWindow(window, targetWordOffset)
    /\ located = window.currentIndex
    /\ located >= 0 /\ located < Len(window.slides)
    /\ getOffsetAtSlideIndex(window, located) <= targetWordOffset
    /\ targetWordOffset < getOffsetAtSlideIndex(window, located)
                            + window.slideWordCounts[located + 1]

\* C3 witness: a target in the middle of a chapter, with slides before it in
\* the window, located in the window's current slide.
C3_Witness ==
  /\ pc = "located"
  /\ targetWordOffset > 0 /\ targetWordOffset < chapterWordCount
  /\ window.currentIndex > 0
  /\ window.startWordOffset > 0
  /\ located = window.currentIndex

\* C5: every computeWindow result has as many slideWordCounts as slides, a
\* word range as long as their sum, and a currentIndex designating a slide
\* (or no slide and currentIndex = 0).
C5_WindowInvariant ==
  pc \in {"window", "located"} =>
    /\ Len(window.slides) = Len(window.slideWordCounts)
    /\ SumSeq(window.slideWordCounts) = window.endWordOffset - window.startWordOffset
    /\ \/ currentIndexValid(window)
       \/ window.slides = <<>> /\ window.currentIndex = 0

\* C6: a negative targetWordOffset gives the window of offset 0, an offset
\* beyond the chapter's word count the window of offset = word count, and in
\* both cases currentIndex designates a slide of a non-empty chapter.
C6_OutOfRangeClamped ==
  pc \in {"window", "located"} =>
    /\ targetWordOffset < 0 =>
         window = computeWindow(chapterOf(text), 0, maxWords, windowConfig)
    /\ targetWordOffset > chapterWordCount =>
         window = computeWindow(chapterOf(text), chapterWordCount, maxWords, windowConfig)
    /\ (chapterWordCount > 0 /\ (targetWordOffset < 0 \/ targetWordOffset > chapterWordCount))
         => currentIndexValid(window)

\* C21: empty or whitespace-only text is 'no content': chunkText returns no
\* slide for it, and computeWindow on a chapter with such text returns, for
\* any targetWordOffset, a window with no slides, currentIndex = 0 and
\* startWordOffset = endWordOffset = 0.
C21_NoContent ==
  (pc \in {"window", "located"} /\ (text = <<>> \/ IsBlank(text))) =>
    /\ chunkText(text, maxWords) = <<>>
    /\ window.slides = <<>>
    /\ window.slideWordCounts = <<>>
    /\ window.currentIndex = 0
    /\ window.startWordOffset = 0
    /\ window.endWordOffset = 0

\* C21 witness: a window computed on a whitespace-only chapter at a target
\* beyond its (zero) word count.
C21_Witness ==
  /\ pc = "window"
  /\ IsBlank(text)
  /\ targetWordOffset > 0
  /\ window.slides = <<>>

\* C23: computeWindow called with targetWordOffset equal to the chapter's
\* word count returns a window anchored at the end of the chapter: its
\* endWordOffset is the chapter's word count and its slides are the last
\* slides of the chunked chapter.
C23_AnchoredAtEnd ==
  (pc \in {"window", "located"} /\ chapterWordCount > 0 /\ targetWordOffset = chapterWordCount) =>
    LET all == chunkText(text, maxWords)
        n == Len(window.slides)
    IN /\ window.endWordOffset = chapterWordCount
       /\ n <= Len(all)
       /\ window.slides = SubSeq(all, Len(all) - n + 1, Len(all))

\* the last n elements of arr (all of them if it has fewer)
lastOf(arr, n) == SubSeq(arr, Len(arr) - Min(n, Len(arr)) + 1, Len(arr))

\* C24: computeWindow returns at most prevCount + nextCount + 1 slides: the
\* last prevCount slides of the chunked text before the target followed by
\* the first nextCount + 1 slides of the chunked text from the target on,
\* with currentIndex the number of leading 'before' slides, at most prevCount.
C24_WindowSize ==
  pc \in {"window", "located"} =>
    LET allTokens == splitIntoWords(text)
        targetTokenIndex == targetTokenIndexOf(allTokens, targetWordOffset)
        slidesBefore == chunkText(join(SubSeq(allTokens, 1, targetTokenIndex), <<>>), maxWords)
        slidesAfter == chunkText(join(SubSeq(allTokens, targetTokenIndex + 1, Len(allTokens)), <<>>), maxWords)
        before == lastOf(slidesBefore, windowConfig.prevCount)
    IN /\ Len(window.slides) <= windowConfig.prevCount + windowConfig.nextCount + 1
       /\ window.slides = before \o sliceFirst(slidesAfter, windowConfig.nextCount + 1)
       /\ window.currentIndex = Len(before)
       /\ window.currentIndex <= windowConfig.prevCount

\* slide i of the window covers wordOffset
covers(w, i, wordOffset) ==
  /\ getOffsetAtSlideIndex(w, i) <= wordOffset
  /\ wordOffset < getOffsetAtSlideIndex(w, i) + w.slideWordCounts[i + 1]

\* C25: for every window and word offset, findSlideIndexAtOffset returns the
\* one slide index covering the offset when the offset is within the window,
\* 0 below startWordOffset and the last slide index from endWordOffset on;
\* the result is never negative and never >= max(1, slides.length).
C25_FindSlideIndex ==
  pc \in {"window", "located"} =>
    \A wordOffset \in (window.startWordOffset - 1)..(window.endWordOffset + 1) :
      LET found == IF pc = "located" /\ wordOffset = targetWordOffset
                   THEN located
                   ELSE findSlideIndexAtOffset(window, wordOffset)
      IN /\ isWithinWindow(window, wordOffset) =>
              \A i \in 0..(Len(window.slides) - 1) : covers(window, i, wordOffset) <=> i = found
         /\ wordOffset < window.startWordOffset => found = 0
         /\ wordOffset >= window.endWordOffset => found = Len(window.slides) - 1
         /\ found >= 0
         /\ found < Max(1, Len(window.slides))

\* the words slides from..to (1-based) of a slide list show, in order
RECURSIVE wordsOfSlides(_, _, _)
wordsOfSlides(sl, from, to) ==
  IF from > to THEN <<>> ELSE wordsOf(sl[from]) \o wordsOfSlides(sl, from + 1, to)

\* C26: the slides of a computed window, in order, show exactly the chapter's
\* words at offsets startWordOffset .. endWordOffset - 1, and the slide at
\* index i shows the chapter's words from getOffsetAtSlideIndex(w, i) on.
C26_GapFree ==
  pc \in {"window", "located"} =>
    LET chapterWords == wordsOf(text)
    IN /\ window.endWordOffset <= Len(chapterWords)
       /\ wordsOfSlides(window.slides, 1, Len(window.slides))
            = SubSeq(chapterWords, window.startWordOffset + 1, window.endWordOffset)
       /\ \A i \in 0..(Len(window.slides) - 1) :
            wordsOf(window.slides[i + 1])
              = SubSeq(chapterWords, getOffsetAtSlideIndex(window, i) + 1,
                       getOffsetAtSlideIndex(window, i) + window.slideWordCounts[i + 1])

(***************************************************************************)
(* Claims about the reading session (SpecReader).                          *)
(***************************************************************************)
\* the Position of the slide displayed, and the Position storage holds
displayedPosition ==
  [chapterIndex |-> currentChapterIndex,
   wordOffset |-> slideIndexToWordOffset(currentSlideIndex, slides)]

persistedPosition == [chapterIndex |-> progress.chapterIndex, wordOffset |-> progress.wordOffset]

\* C4: after any number of changes of the ChunkConfig with no navigation
\* step in between, once the rechunk has run, the current Position
\* (chapterIndex, wordOffset) and the displayed whole-book percentage are
\* what they were before the first change.
C4_ConfigChangeKeepsPosition ==
  (Settled /\ lastStep.op = "changeChunkSize") =>
    /\ displayedPosition = [chapterIndex |-> lastStep.from, wordOffset |-> lastStep.at]
    /\ currentProgress = percentAt(lastStep.from, lastStep.at)

\* C7: once the page has settled after a step across a chapter boundary, the
\* reader is at the start of chapter k + 1 (goToNext on the last slide of
\* chapter k) or on the last slide of chapter k - 1 (goToPrevious on the
\* first slide of chapter k), and the slide displayed is the one of the
\* Position persisted for the step.
C7_ChapterBoundaryCrossing ==
  Settled =>
    /\ lastStep.op = "nextChapter" =>
         /\ currentChapterIndex = lastStep.from + 1
         /\ currentSlideIndex = 0
         /\ progress.saved /\ displayedPosition = persistedPosition
    /\ lastStep.op = "prevChapter" =>
         /\ currentChapterIndex = lastStep.from - 1
         /\ currentSlideIndex = Max(0, Len(slides) - 1)
         /\ progress.saved /\ displayedPosition = persistedPosition

\* C8: no ChunkConfig with maxWords <= 0 reaches the chunker: every maxWords
\* the reader passes to chunkText, whether restored from the persisted chunk
\* size or set by the slider, is positive, and the split loop of no call
\* runs with a non-positive step (every call returns).
C8_MaxWordsPositive ==
  /\ ~hung
  /\ chunkCall.called => chunkCall.maxWords >= 1

\* C20: after every navigation step (next, previous, chapter selection),
\* once the page has settled, the Position persisted is the reader's current
\* position: the chapter displayed and the word offset at which the slide
\* displayed begins, with 0 <= wordOffset <= words of that chapter.
C20_PersistedIsCurrent ==
  (/\ Settled
   /\ lastStep.op \in {"nextSlide", "nextChapter", "prevSlide", "prevChapter", "selectChapter"})
  => /\ progress.saved
     /\ persistedPosition = displayedPosition
     /\ 0 <= progress.wordOffset
     /\ progress.wordOffset <= chapters[currentChapterIndex + 1].words

\* C27: a chapter whose text yields no slides never traps the reader: goToNext
\* is ignored only in the last chapter of the book and goToPrevious only in
\* the first; from every other chapter, with or without slides, they move.
C27_EmptyChapterNeverTraps ==
  /\ lastStep.op = "nextIgnored" => lastStep.from >= Len(chapters) - 1
  /\ lastStep.op = "previousIgnored" => lastStep.from = 0

(***************************************************************************)
(* Claims about auto-advance (SpecAutoAdvance).                            *)
(***************************************************************************)
\* C14: shouldEnableAutoplay() is true exactly when addObservation has been
\* called at least 5 times since the estimator was constructed, and an
\* auto-advance timer is pending only while it is true.
C14_AutoplayAfterFiveObservations ==
  /\ shouldEnableAutoplay(readingEstimator) <=> lastCall.calls >= 5
  /\ autoAdvanceTimer.armed => shouldEnableAutoplay(readingEstimator)

\* the effect armed the timer after the fifth observation
C14_Witness ==
  /\ autoAdvanceTimer.armed
  /\ lastCall.calls = 5
  /\ Settled

\* C22: with auto-swipe enabled no auto-advance timer is pending while the
\* screen is touched, and every touch end (a tap in any zone, a hold or a
\* swipe) clears the paused state, so that auto-advance is armed again
\* whenever it is eligible (enough observations, no panel open).
C22_TouchEndResumes ==
  /\ (Settled /\ touching /\ isAutoSwipeEnabled) => ~autoAdvanceTimer.armed
  /\ (Settled /\ ~touching) => ~isPaused
  /\ (/\ Settled
      /\ ~touching
      /\ lastStep.op \in {"touchEnd", "tapCentre"}
      /\ isAutoSwipeEnabled
      /\ ~showSettings
      /\ ~showIndex
      /\ shouldEnableAutoplay(readingEstimator)) => autoAdvanceTimer.armed

\* the auto-advance timeout has just fired and called goToNext on a slide;
\* the effects of the render it caused have not run yet
TimerJustFired ==
  /\ ~autoAdvanceTimer.armed
  /\ autoAdvanceTimer # NoTimer
  /\ effectPending
  /\ lastStep.op \in {"nextSlide", "nextChapter", "endOfBook"}

one_ms == fdivInt(1, 1000)

C29_OneTimerForTheCurrentSlide ==
  /\ (Settled /\ autoAdvanceTimer.armed) =>
       /\ autoAdvanceDeps = autoAdvanceDependencies
       /\ shouldAutoAdvance
       /\ autoAdvanceTimer.duration = fmulInt(predict(readingEstimator), 1000)
  /\ TimerJustFired =>
       /\ lastStep.op = "nextSlide" =>
            /\ currentChapterIndex = lastStep.from
            /\ currentSlideIndex >= 1
            /\ slideIndexToWordOffset(currentSlideIndex - 1, slides) = lastStep.at
       /\ lastStep.op = "nextChapter" =>
            /\ currentChapterIndex = lastStep.from + 1
            /\ currentSlideIndex = 0
       /\ lastStep.op = "endOfBook" => displayedPosition.chapterIndex = lastStep.from

\* C29 witness: a timer pending for the slide a manual step has just moved
\* to, the timer of the slide left having been cancelled
C29_Witness ==
  /\ Settled
  /\ autoAdvanceTimer.armed
  /\ lastStep.op = "prevSlide"
  /\ autoAdvanceDeps = autoAdvanceDependencies

\* the reader is on the last slide of the last chapter
atEndOfBook ==
  /\ Len(slides) > 0
  /\ currentChapterIndex = Len(chapters) - 1
  /\ currentSlideIndex = Len(slides) - 1

\* C30: at the last slide of the last chapter goToNext (a tap or the timer)
\* leaves currentChapterIndex, currentSlideIndex and the persisted Position
\* as they are; the render that follows a timer fired there arms no timer;
\* and the position is never past the last chapter nor, once the page has
\* settled, past the last slide.
C30_StopsAtEndOfBook ==
  /\ [](/\ ~loading => currentChapterIndex <= Len(chapters) - 1
        /\ Settled => currentSlideIndex <= Max(0, Len(slides) - 1))
  /\ [][/\ (atEndOfBook /\ lastCall'.calls = lastCall.calls + 1) =>
             /\ lastStep'.op = "endOfBook"
             /\ UNCHANGED <<currentChapterIndex, currentSlideIndex, progress>>
        /\ (TimerJustFired /\ lastStep.op = "endOfBook") => ~autoAdvanceTimer'.armed]_vars

\* C30 witness: the timer has fired on the last slide of the book, the
\* render has settled and no timer is pending
C30_Witness ==
  /\ Settled
  /\ atEndOfBook
  /\ lastStep.op = "endOfBook"
  /\ ~autoAdvanceTimer.armed
  /\ autoAdvanceTimer # NoTimer
  /\ ~isPaused /\ isAutoSwipeEnabled /\ ~showSettings /\ ~showIndex

(***************************************************************************)
(* Claims about the progress translator (SpecProgress).                    *)
(***************************************************************************)
\* the double x differs from the fraction a / b by less than 1 / (1024 * b)
nearFraction(x, a, b) ==
  /\ less(mulSmall(mulSmall(x.m, b), 1024), shiftLeft(big(1024 * a + 1), x.e))
  /\ \/ a = 0
     \/ less(shiftLeft(big(1024 * a - 1), x.e), mulSmall(mulSmall(x.m, b), 1024))

\* C11: for a book of more than zero words and a percentage p in [0, 100],
\* calculateProgress of the Position findPositionFromProgress returns for p
\* differs from p by less than 100 / totalWords (one word of progress).
C11_RoundTrip ==
  (/\ pc = "roundTrip"
   /\ getTotalWords(chapters) > 0
   /\ progressPercent <= 100)
  => LET totalWords == getTotalWords(chapters)
     IN /\ dLess(percent, progressPercent * totalWords + 100, totalWords)
        /\ \/ progressPercent * totalWords < 100
           \/ dGreater(percent, progressPercent * totalWords - 100, totalWords)

C13_FindPosition ==
  (pc \in {"found", "roundTrip"} /\ Len(chapters) > 0)
  => LET totalWords == getTotalWords(chapters)
         i == position.chapterIndex
         r == position.wordOffset
     IN /\ i \in 0..(Len(chapters) - 1)
        /\ 0 <= r /\ r <= chapters[i + 1].words
        /\ progressPercent <= 100
           => getWordsBeforeChapter(chapters, i) + r = (progressPercent * totalWords) \div 100
        /\ progressPercent >= 100
           => i = Len(chapters) - 1 /\ r = chapters[Len(chapters)].words

(***************************************************************************)
(* Claims about the pace estimator (SpecEstimator).                        *)
(***************************************************************************)
\* the double ema differs from 0.3 * value + 0.7 * old by less than 2^(-40) / 10,
\* the weights being the decimal fractions, not their doubles
emaOf(ema, value, old) ==
  LET e == Max(Max(ema.e, value.e), old.e)
      got == mulSmall(shiftLeft(ema.m, e - ema.e), 10)
      want == addBig(mulSmall(shiftLeft(value.m, e - value.e), 3),
                     mulSmall(shiftLeft(old.m, e - old.e), 7))
      off == IF less(got, want) THEN subBig(want, got) ELSE subBig(got, want)
  IN less(shiftLeft(off, 40), shiftLeft(big(1), e))

\* C15: after at least one observation predict() returns exactly the current
\* ema plus the buffer of 2 seconds, so it is never shorter than the current
\* average; addObservation(10) on a new estimator makes predict() 12.
C15_PredictIsEmaPlusBuffer ==
  readingEstimator.n >= 1
  => /\ predict(readingEstimator) = fadd(readingEstimator.ema, fromInt(2))
     /\ ~fless(predict(readingEstimator), readingEstimator.ema)
     /\ (lastCall.op = "addObservation" /\ lastCall.before.n = 0
         /\ lastCall.timeSeconds = fromInt(10))
        => predict(readingEstimator) = fromInt(12)

\* addObservation(10) was called on a new estimator: the prediction is 12
C15_Witness ==
  /\ lastCall.op = "addObservation"
  /\ lastCall.before = NewEstimator
  /\ lastCall.timeSeconds = fromInt(10)
  /\ readingEstimator.n = 1
  /\ predict(readingEstimator) = fromInt(12)

\* C16 as stated: addObservation sets ema to the observed value on the first
\* observation and to alpha * value + (1 - alpha) * ema afterwards, alpha
\* being 0.3, and increments n by exactly 1.
C16_EmaOfObservedValue ==
  lastCall.op = "addObservation"
  => /\ readingEstimator.n = lastCall.before.n + 1
     /\ lastCall.before.n = 0 => readingEstimator.ema = lastCall.timeSeconds
     /\ lastCall.before.n > 0
        => emaOf(readingEstimator.ema, lastCall.timeSeconds, lastCall.before.ema)

\* C16: addObservation counts an observed value below 5 seconds as 5; it sets
\* ema to that value on the first observation and to alpha * value +
\* (1 - alpha) * ema afterwards, alpha being 0.3, up to the rounding of the
\* arithmetic, and increments n by exactly 1.
C16_EmaOfClampedValue ==
  lastCall.op = "addObservation"
  => LET value == IF dLess(lastCall.timeSeconds, 5, 1) THEN fromInt(5)
                  ELSE lastCall.timeSeconds
     IN /\ readingEstimator.n = lastCall.before.n + 1
        /\ lastCall.before.n = 0 => readingEstimator.ema = value
        /\ lastCall.before.n > 0
           => emaOf(readingEstimator.ema, value, lastCall.before.ema)

\* an observation shorter than 5 seconds was added after an earlier one
C16_Witness ==
  /\ lastCall.op = "addObservation"
  /\ lastCall.before.n > 0
  /\ dLess(lastCall.timeSeconds, 5, 1)
  /\ readingEstimator.n = lastCall.before.n + 1

\* C17 as stated: from an estimator with at least one observation, a
\* sustained sequence of observations larger than the current ema eventually
\* makes predict() larger than it was.  An observation larger than the ema
\* that leaves the ema as it was can be repeated for ever without predict()
\* ever changing, so no such observation may exist.
C17_LargerObservationMovesEma ==
  (/\ lastCall.op = "addObservation"
   /\ lastCall.before.n >= 1
   /\ fless(lastCall.before.ema, lastCall.timeSeconds))
  => readingEstimator.ema # lastCall.before.ema

\* C17: from an estimator with at least one observation, an observation
\* that is larger than the current ema by a millisecond or more makes
\* predict() larger than it was, so a sustained sequence of them raises
\* predict() above its prior value.
C17_PaceMonotonicity ==
  (/\ lastCall.op = "addObservation"
   /\ lastCall.before.n >= 1
   /\ ~fless(lastCall.timeSeconds, fadd(lastCall.before.ema, fdivInt(1, 1000))))
  => fless(predict(lastCall.before), predict(readingEstimator))

\* two observations larger than the average in a row raised the prediction
C17_Witness ==
  /\ lastCall.op = "addObservation"
  /\ lastCall.before.n >= 2
  /\ ~fless(lastCall.timeSeconds, fadd(lastCall.before.ema, fdivInt(1, 1000)))
  /\ fless(predict(lastCall.before), predict(readingEstimator))

\* C18: reset() zeroes n and ema, so shouldEnableAutoplay() is false again,
\* and from then on the estimator answers as a newly constructed one fed the
\* same observations.
C18_ResetIsFresh ==
  /\ lastCall.op = "reset"
     => /\ readingEstimator.n = 0
        /\ readingEstimator.ema = fromInt(0)
        /\ ~shouldEnableAutoplay(readingEstimator)
  /\ lastCall.resets
     => /\ getObservationCount(readingEstimator) = getObservationCount(freshEstimator)
        /\ getCurrentEMA(readingEstimator) = getCurrentEMA(freshEstimator)
        /\ predict(readingEstimator) = predict(freshEstimator)
        /\ shouldEnableAutoplay(readingEstimator) = shouldEnableAutoplay(freshEstimator)

\* an estimator that had reached autoplay was reset
C18_Witness ==
  /\ lastCall.op = "reset"
  /\ shouldEnableAutoplay(lastCall.before)
  /\ ~shouldEnableAutoplay(readingEstimator)

\* C19: predict() returns 7 while there is no observation and never less
\* than 7, because an observation shorter than 5 seconds counts as 5.
C19_PredictAtLeastDefault ==
  /\ readingEstimator.n = 0 => predict(readingEstimator) = fromInt(7)
  /\ ~dLess(predict(readingEstimator), 7, 1)
  /\ readingEstimator.n >= 1 => ~dLess(readingEstimator.ema, 5, 1)
  /\ (lastCall.op = "addObservation" /\ dLess(lastCall.timeSeconds, 5, 1))
     => readingEstimator = addObservation(lastCall.before, fromInt(5))

\* observations of 2 seconds only: the prediction is still 7
C19_Witness ==
  /\ lastCall.op = "addObservation"
  /\ lastCall.timeSeconds = fdivInt(2000, 1000)
  /\ readingEstimator.n >= 2
  /\ predict(readingEstimator) = fromInt(7)

====
